---------------------------- MODULE Spec2Model ----------------------------
(***************************************************************************)
(* Model of the Neuroglancer state generator: generate_ng_state.main and   *)
(* the functions of ng_utils it calls.  One run of main is a sequential    *)
(* program; pc is its position.  External collaborators (the annotation    *)
(* fetch API, the S3 client, the SkeletonManager, the viewer service) are  *)
(* modelled by what the code hands them and by the results or exceptions   *)
(* they may hand back.                                                     *)
(***************************************************************************)
EXTENDS Integers, Sequences, FiniteSets, TLC

(***************************************************************************)
(* Bounds of the model.                                                    *)
(***************************************************************************)
\* longest segment_ids list of a configuration
MaxSegs == 2
\* most edges (point pairs) in a raw skeleton handed to the deduplication
MaxEdges == 2

None == "None"

(***************************************************************************)
(* Python dicts keep insertion order: a dict is a sequence of <<key,       *)
(* value>> pairs with distinct keys.                                       *)
(***************************************************************************)
DictKeys(d) == {d[n][1] : n \in 1..Len(d)}

DictGet(d, k) == d[CHOOSE n \in 1..Len(d) : d[n][1] = k][2]

\* d[k] = v: an existing key keeps its position, a new key goes last
DictSet(d, k, v) ==
    IF k \in DictKeys(d)
    THEN [n \in 1..Len(d) |-> IF d[n][1] = k THEN <<k, v>> ELSE d[n]]
    ELSE Append(d, <<k, v>>)

Range(s) == {s[n] : n \in 1..Len(s)}

RECURSIVE Flatten(_)
Flatten(rows) ==
    IF rows = <<>> THEN <<>> ELSE Head(rows) \o Flatten(Tail(rows))

(***************************************************************************)
(* JSON values (what yaml.safe_load yields and json.dumps takes), tagged   *)
(* by their Python type.  An object is a sequence of <<key, value>> pairs  *)
(* in insertion order.                                                     *)
(***************************************************************************)
JNum(n) == [t |-> "num", v |-> n]
JStr(s) == [t |-> "str", v |-> s]
JList(s) == [t |-> "list", v |-> s]
JObj(pairs) == [t |-> "obj", v |-> pairs]
JNull == [t |-> "null", v |-> None]

JNums(s) == JList([n \in 1..Len(s) |-> JNum(s[n])])

\* obj[k] of a JSON object
JGet(obj, k) == DictGet(obj.v, k)

RECURSIVE Spaces(_)
Spaces(n) == IF n = 0 THEN "" ELSE " " \o Spaces(n - 1)

RECURSIVE json_dumps(_, _)
RECURSIVE DumpItems(_, _, _)
\* the items of a list (a value each) or of an object (a "key": value each),
\* one per line at depth d, separated by commas
DumpItems(j, n, d) ==
    LET item == IF j.t = "list"
                THEN json_dumps(j.v[n], d)
                ELSE "\"" \o j.v[n][1] \o "\": " \o json_dumps(j.v[n][2], d)
    IN  Spaces(2 * d) \o item \o
        (IF n = Len(j.v) THEN "\n" ELSE ",\n" \o DumpItems(j, n + 1, d))

\* json.dumps(j, indent=2), for a value nested d levels deep
json_dumps(j, d) ==
    CASE j.t = "num"  -> ToString(j.v)
      [] j.t = "str"  -> "\"" \o j.v \o "\""
      [] j.t = "null" -> "null"
      [] j.t = "list" ->
            IF j.v = <<>> THEN "[]"
            ELSE "[\n" \o DumpItems(j, 1, d + 1) \o Spaces(2 * d) \o "]"
      [] j.t = "obj"  ->
            IF j.v = <<>> THEN "{}"
            ELSE "{\n" \o DumpItems(j, 1, d + 1) \o Spaces(2 * d) \o "}"

\* cfg.get(k, default): the configured value whenever the key is present
CfgGet(c, k, default) == IF k \in DOMAIN c THEN c[k] ELSE default

(***************************************************************************)
(* fetch_proofread_skeletons: verts, inv = np.unique(all_pts, axis=0,      *)
(* return_inverse=True); edges = inv.reshape(-1, 2).  A point is a triple  *)
(* <<x, y, z>>; np.unique returns the distinct rows in lexicographic       *)
(* order and, for every input row, its 0-based position among them.        *)
(***************************************************************************)
LexLess(p, q) ==
    \/ p[1] < q[1]
    \/ p[1] = q[1] /\ p[2] < q[2]
    \/ p[1] = q[1] /\ p[2] = q[2] /\ p[3] < q[3]

\* mutant: the rows are sorted but a repeated row is kept
InsertUnique_KeepRepeats(s, p) ==
    LET k == Cardinality({n \in 1..Len(s) : LexLess(s[n], p)})
    IN  SubSeq(s, 1, k) \o <<p>> \o SubSeq(s, k + 1, Len(s))

\* s is sorted and duplicate-free; p goes to its place unless s holds it
InsertUnique(s, p) ==
    IF p \in Range(s) THEN s
    ELSE LET k == Cardinality({n \in 1..Len(s) : LexLess(s[n], p)})
         IN  SubSeq(s, 1, k) \o <<p>> \o SubSeq(s, k + 1, Len(s))

RECURSIVE UniqueRows(_)
UniqueRows(pts) ==
    IF pts = <<>> THEN <<>>
    ELSE InsertUnique(UniqueRows(SubSeq(pts, 1, Len(pts) - 1)), pts[Len(pts)])

\* mutant: the inverse counts rows from 1
InverseIndex_OneBased(verts, p) == CHOOSE n \in 1..Len(verts) : verts[n] = p

\* the 0-based index of row p among the unique rows
InverseIndex(verts, p) == (CHOOSE n \in 1..Len(verts) : verts[n] = p) - 1

np_unique(all_pts) ==
    LET verts == UniqueRows(all_pts)
    IN  [verts |-> verts,
         inv   |-> [n \in 1..Len(all_pts) |-> InverseIndex(verts, all_pts[n])]]

\* inv.reshape(-1, 2) raises ValueError on an odd number of entries
CanReshapePairs(inv) == Len(inv) % 2 = 0

ReshapePairs(inv) ==
    [e \in 1..(Len(inv) \div 2) |-> <<inv[2 * e - 1], inv[2 * e]>>]

(***************************************************************************)
(* fetch_proofread_meshes: Mesh(verts, faces, segid).to_precomputed() is   *)
(* the vertex count, the vertex coordinates, then the face indices, with   *)
(* no check of the indices against the count.                              *)
(***************************************************************************)
to_precomputed(mesh) ==
    <<Len(mesh.vertices)>> \o Flatten(mesh.vertices) \o Flatten(mesh.faces)

(***************************************************************************)
(* The key scheme of upload_meshes_to_s3 and write_info_file.              *)
(***************************************************************************)
MeshPrefix(s3_base_path, fragment_dir_name) ==
    s3_base_path \o "/" \o fragment_dir_name

\* mutant: the key leaves the segment id out
MeshKey_NoSegmentId(prefix, sid) == prefix \o "/0"

MeshKey(prefix, sid) == prefix \o "/" \o ToString(sid) \o ":0"

MeshUrl(bucket, prefix) == "s3://" \o bucket \o "/" \o prefix

InfoKey(s3_base_path) == s3_base_path \o "/info"

\* mutant: a put to an existing key appends to what the key holds
PutObject_Append(st, key, body, ctype) ==
    [k \in DOMAIN st \cup {key} |->
        IF k # key THEN st[k]
        ELSE IF key \in DOMAIN st
             THEN [Body |-> st[k].Body \o body, ContentType |-> ctype]
             ELSE [Body |-> body, ContentType |-> ctype]]

\* s3.put_object: a full overwrite of the key
PutObject(st, key, body, ctype) ==
    [k \in DOMAIN st \cup {key} |->
        IF k = key THEN [Body |-> body, ContentType |-> ctype] ELSE st[k]]


(***************************************************************************)
(* write_info_file: the info dict, built from cfg with its defaults.       *)
(***************************************************************************)
\* mutant: the mesh directory of the manifest is the default, not the
\* configured one
info_dict_DefaultMeshDir(c, fragment_dir_name) ==
    JObj(<< <<"@type", JStr("neuroglancer_multiscale_volume")>>,
            <<"type", JStr("segmentation")>>,
            <<"data_type", JStr("uint64")>>,
            <<"num_channels", CfgGet(c, "num_channels", JNum(1))>>,
            <<"scales", JList(<<
                JObj(<< <<"encoding", JStr("raw")>>,
                        <<"chunk_sizes",
                          CfgGet(c, "chunk_sizes", JList(<<JNums(<<64, 64, 64>>)>>))>>,
                        <<"key", JStr("fullres")>>,
                        <<"resolution",
                          CfgGet(c, "resolution", JNums(<<8, 8, 30>>))>>,
                        <<"size", CfgGet(c, "size", JNums(<<1, 1, 1>>))>> >>) >>)>>,
            <<"mesh", JStr("mesh")>> >>)

info_dict(c, fragment_dir_name) ==
    JObj(<< <<"@type", JStr("neuroglancer_multiscale_volume")>>,
            <<"type", JStr("segmentation")>>,
            <<"data_type", JStr("uint64")>>,
            <<"num_channels", CfgGet(c, "num_channels", JNum(1))>>,
            <<"scales", JList(<<
                JObj(<< <<"encoding", JStr("raw")>>,
                        <<"chunk_sizes",
                          CfgGet(c, "chunk_sizes", JList(<<JNums(<<64, 64, 64>>)>>))>>,
                        <<"key", JStr("fullres")>>,
                        <<"resolution",
                          CfgGet(c, "resolution", JNums(<<8, 8, 30>>))>>,
                        <<"size", CfgGet(c, "size", JNums(<<1, 1, 1>>))>> >>) >>)>>,
            <<"mesh", JStr(fragment_dir_name)>> >>)

(***************************************************************************)
(* build_viewer_link: the layers added to the ViewerState, in order.  The  *)
(* fourth layer is added whatever skeleton_source is; the fifth is added   *)
(* when a skeleton manager is given.                                       *)
(***************************************************************************)
NoManager == [kind |-> None]

Layer(type, name, source, segments) ==
    [type |-> type, name |-> name, source |-> source, segments |-> segments]

\* skeleton_manager.to_segmentation_layer(name=..., uploaded_segments=True)
to_segmentation_layer(mgr, name) ==
    Layer("segmentation", name, "precomputed://" \o mgr.cloudpath,
          [n \in 1..Len(mgr.uploaded) |-> mgr.uploaded[n][1]])

\* mutant: the skeleton source layer is added before the mesh layer
build_viewer_link_Swapped(a) ==
    LET vs == << Layer("image", "EM_image", a.image_source, <<>>),
                 Layer("segmentation", "flat_seg", a.seg_source, <<>>),
                 Layer("segmentation", "proofread_skeletons_source",
                       "precomputed://" \o a.skeleton_source, a.segment_ids),
                 Layer("segmentation", a.mesh_layer_name,
                       "precomputed://" \o a.mesh_source, a.segment_ids) >>
    IN  IF a.skeleton_manager # NoManager
        THEN Append(vs, to_segmentation_layer(a.skeleton_manager,
                                              a.skeleton_layer_name))
        ELSE vs

build_viewer_link(a) ==
    LET vs == << Layer("image", "EM_image", a.image_source, <<>>),
                 Layer("segmentation", "flat_seg", a.seg_source, <<>>),
                 Layer("segmentation", a.mesh_layer_name,
                       "precomputed://" \o a.mesh_source, a.segment_ids),
                 Layer("segmentation", "proofread_skeletons_source",
                       "precomputed://" \o a.skeleton_source, a.segment_ids) >>
    IN  IF a.skeleton_manager # NoManager
        THEN Append(vs, to_segmentation_layer(a.skeleton_manager,
                                              a.skeleton_layer_name))
        ELSE vs

(***************************************************************************)
(* Inputs: configurations, and what the external services may return.      *)
(***************************************************************************)
SegmentIds == {10, 20}

\* the segment_ids lists of a configuration: any list, repeats included
IdLists == UNION {[1..n -> SegmentIds] : n \in 0..MaxSegs}

NoCfg == [k \in {} |-> None]

BaseCfg(ids) ==
    [segment_ids |-> ids, api_dataset |-> "minnie65", bucket |-> "bkt",
     s3_base_path |-> "exp1", segmentation_layer_source |-> "precomputed://seg",
     image_layer_source |-> "precomputed://em"]

DirCfgs == {NoCfg, [fragment_dir_name |-> "frags"]}

\* overrides of the shape the precomputed format asks for
GoodOverrides ==
    [chunk_sizes |-> JList(<<JNums(<<32, 32, 32>>), JNums(<<64, 64, 16>>)>>),
     resolution |-> JNums(<<4, 4, 40>>), size |-> JNums(<<512, 512, 100>>)]

\* what a configuration may say of chunk_sizes, of resolution and of size:
\* nothing, a well-formed value, or one of two malformed values
OverrideChoices == 1..4

ChunkCfg(n) ==
    CASE n = 1 -> NoCfg
      [] n = 2 -> [chunk_sizes |-> GoodOverrides.chunk_sizes]
      [] n = 3 -> [chunk_sizes |-> JNums(<<64, 64, 64>>)]
      [] n = 4 -> [chunk_sizes |-> JNull]

ResolutionCfg(n) ==
    CASE n = 1 -> NoCfg
      [] n = 2 -> [resolution |-> GoodOverrides.resolution]
      [] n = 3 -> [resolution |-> JNums(<<8, 8>>)]
      [] n = 4 -> [resolution |-> JStr("8,8,30")]

SizeCfg(n) ==
    CASE n = 1 -> NoCfg
      [] n = 2 -> [size |-> GoodOverrides.size]
      [] n = 3 -> [size |-> JNums(<<100>>)]
      [] n = 4 -> [size |-> JNull]

\* the configurations of a run of main
MainCfgs ==
    {BaseCfg(ids) @@ d @@ o : ids \in IdLists, d \in DirCfgs,
                              o \in {NoCfg, GoodOverrides}}

NoMesh == [vertices |-> <<>>, faces |-> <<>>]

\* a 3-vertex, 1-face mesh
GoodMesh ==
    [vertices |-> << <<0, 0, 0>>, <<1, 0, 0>>, <<0, 1, 0>> >>,
     faces |-> << <<0, 1, 2>> >>]

\* malformed upstream data: face index 3 with 3 vertices
BadMesh ==
    [vertices |-> << <<0, 0, 0>>, <<1, 0, 0>>, <<0, 1, 0>> >>,
     faces |-> << <<0, 1, 3>> >>]

Meshes == {GoodMesh, BadMesh}

Points == {<<0, 0, 1>>, <<0, 1, 0>>, <<1, 0, 0>>, <<0, 1, 1>>}

\* every raw skeleton of at most MaxEdges edges, an odd point count included
AllRaws == UNION {[1..n -> Points] : n \in 0..(2 * MaxEdges)}

\* the raw skeletons the fetch service returns in a run of main: two edges
\* sharing a point, a self-loop, and an odd point count
MainRaws ==
    { << <<1, 0, 0>>, <<0, 1, 0>>, <<0, 1, 0>>, <<0, 0, 1>> >>,
      << <<0, 1, 1>>, <<0, 1, 1>> >>,
      << <<0, 0, 1>> >> }

FetchErrors == {"NotFoundError", "FetchError"}

NoErr == [kind |-> None, sid |-> 0]

(***************************************************************************)
(* State.                                                                  *)
(*   pc              position of the run (a call of main, or of one of the *)
(*                   functions of ng_utils)                                *)
(*   cfg             the loaded configuration                              *)
(*   err             the uncaught exception that ended the run, if any     *)
(*   i               position of the running for loop in what it iterates  *)
(*   proof           the mesh fetched for the current segment id           *)
(*   frags           segment id -> fragment bytes (out, then frags)        *)
(*   store           the bucket: key -> body and content type              *)
(*   puts            the keys of the put_object calls made, in order       *)
(*   mesh_s3_url     what upload_meshes_to_s3 returned                     *)
(*   info            the info dict write_info_file built                   *)
(*   skmgr           the SkeletonManager and what was uploaded through it  *)
(*   raw             the raw skeleton fetched for the current segment id   *)
(*   skeletons       segment id -> <<vertices, edges>>                     *)
(*   skeleton_source what upload_skeletons returned                        *)
(*   linkArgs        the arguments build_viewer_link is called with        *)
(*   layers          the layers of the ViewerState handed to the viewer    *)
(*   pass            which publish of the same fragments this is (1 or 2)  *)
(*   snapshot        the bucket as the first publish left it               *)
(***************************************************************************)
VARIABLES pc, cfg, err, i, proof, frags, store, puts, mesh_s3_url, info,
          skmgr, raw, skeletons, skeleton_source, linkArgs, layers, pass,
          snapshot

vars == <<pc, cfg, err, i, proof, frags, store, puts, mesh_s3_url, info,
          skmgr, raw, skeletons, skeleton_source, linkArgs, layers, pass,
          snapshot>>

NoStore == [k \in {} |-> None]

NoArgs == [skeleton_manager |-> NoManager]

\* cfg.get("fragment_dir_name", "mesh"), as main passes it
FragmentDirName == CfgGet(cfg, "fragment_dir_name", "mesh")

Prefix == MeshPrefix(cfg.s3_base_path, FragmentDirName)

\* a call that starts at position p with configuration c, fragments d, the
\* bucket holding st, raw skeleton r and link arguments a; everything else as
\* it is when the process starts
StartAt(p, c, d, st, r, a) ==
    /\ pc = p
    /\ cfg = c
    /\ frags = d
    /\ store = st
    /\ raw = r
    /\ linkArgs = a
    /\ err = NoErr
    /\ i = 1
    /\ proof = NoMesh
    /\ puts = <<>>
    /\ mesh_s3_url = None
    /\ info = JNull
    /\ skmgr = NoManager
    /\ skeletons = <<>>
    /\ skeleton_source = None
    /\ layers = <<>>
    /\ pass = 1
    /\ snapshot = NoStore

\* a run of main on an empty bucket
Init ==
    \E c \in MainCfgs : StartAt("mesh_fetch", c, <<>>, NoStore, <<>>, NoArgs)

\* an exception nobody catches: the run ends where it is
Raise(kind, sid) ==
    /\ pc' = "raised"
    /\ err' = [kind |-> kind, sid |-> sid]

(***************************************************************************)
(* fetch_proofread_meshes                                                  *)
(***************************************************************************)
\* lines 28-29: the two fetches of one segment id; either may raise
fetch_proofread_meshes_fetch ==
    /\ pc = "mesh_fetch"
    /\ i <= Len(cfg.segment_ids)
    /\ \/ /\ \E m \in Meshes : proof' = m
          /\ pc' = "mesh_encode"
          /\ err' = err
       \/ /\ \E kind \in FetchErrors : Raise(kind, cfg.segment_ids[i])
          /\ proof' = proof
    /\ UNCHANGED <<cfg, i, frags, store, puts, mesh_s3_url, info, skmgr, raw,
                   skeletons, skeleton_source, linkArgs, layers, pass, snapshot>>

\* lines 30-33: out[sid] = Mesh(verts, faces, segid=sid).to_precomputed()
fetch_proofread_meshes_encode ==
    /\ pc = "mesh_encode"
    /\ frags' = DictSet(frags, cfg.segment_ids[i], to_precomputed(proof))
    /\ i' = i + 1
    /\ pc' = "mesh_fetch"
    /\ UNCHANGED <<cfg, err, proof, store, puts, mesh_s3_url, info, skmgr, raw,
                   skeletons, skeleton_source, linkArgs, layers, pass, snapshot>>

\* line 34: return out
fetch_proofread_meshes_return ==
    /\ pc = "mesh_fetch"
    /\ i > Len(cfg.segment_ids)
    /\ pc' = "mesh_upload"
    /\ i' = 1
    /\ proof' = NoMesh
    /\ UNCHANGED <<cfg, err, frags, store, puts, mesh_s3_url, info, skmgr, raw,
                   skeletons, skeleton_source, linkArgs, layers, pass, snapshot>>

(***************************************************************************)
(* upload_meshes_to_s3                                                     *)
(***************************************************************************)
\* lines 76-84: one put_object per item of the fragments dict
upload_meshes_to_s3_put ==
    /\ pc = "mesh_upload"
    /\ i <= Len(frags)
    /\ LET sid == frags[i][1]
           key == MeshKey(Prefix, sid)
       IN  \/ /\ store' = PutObject(store, key, frags[i][2],
                                    "application/octet-stream")
              /\ puts' = Append(puts, key)
              /\ i' = i + 1
              /\ UNCHANGED <<pc, err>>
           \/ /\ Raise("UploadError", sid)
              /\ UNCHANGED <<store, puts, i>>
    /\ UNCHANGED <<cfg, proof, frags, mesh_s3_url, info, skmgr, raw, skeletons,
                   skeleton_source, linkArgs, layers, pass, snapshot>>

\* line 85: return the dataset root
upload_meshes_to_s3_return ==
    /\ pc = "mesh_upload"
    /\ i > Len(frags)
    /\ mesh_s3_url' = MeshUrl(cfg.bucket, Prefix)
    /\ pc' = "write_info"
    /\ UNCHANGED <<cfg, err, i, proof, frags, store, puts, info, skmgr, raw,
                   skeletons, skeleton_source, linkArgs, layers, pass, snapshot>>

(***************************************************************************)
(* write_info_file                                                         *)
(***************************************************************************)
write_info_file ==
    /\ pc = "write_info"
    /\ info' = info_dict(cfg, FragmentDirName)
    /\ LET key == InfoKey(cfg.s3_base_path)
       IN  \/ /\ store' = PutObject(store, key, json_dumps(info', 0),
                                    "application/json")
              /\ puts' = Append(puts, key)
              /\ pc' = "init_skmgr"
              /\ err' = err
           \/ /\ Raise("UploadError", 0)
              /\ UNCHANGED <<store, puts>>
    /\ UNCHANGED <<cfg, i, proof, frags, mesh_s3_url, skmgr, raw, skeletons,
                   skeleton_source, linkArgs, layers, pass, snapshot>>

(***************************************************************************)
(* init_skeleton_manager                                                   *)
(***************************************************************************)
init_skeleton_manager ==
    /\ pc = "init_skmgr"
    /\ skmgr' = [kind |-> "SkeletonManager",
                 segmentation_source |-> cfg.segmentation_layer_source,
                 cloudpath |-> "s3://" \o cfg.bucket \o "/" \o
                               cfg.s3_base_path \o "/skeletons",
                 uploaded |-> <<>>]
    /\ pc' = "skel_fetch"
    /\ i' = 1
    /\ UNCHANGED <<cfg, err, proof, frags, store, puts, mesh_s3_url, info, raw,
                   skeletons, skeleton_source, linkArgs, layers, pass, snapshot>>

(***************************************************************************)
(* fetch_proofread_skeletons                                               *)
(***************************************************************************)
\* line 47: the fetch of one segment id; it may raise
fetch_proofread_skeletons_fetch ==
    /\ pc = "skel_fetch"
    /\ i <= Len(cfg.segment_ids)
    /\ \/ /\ \E r \in MainRaws : raw' = r
          /\ pc' = "skel_unique"
          /\ err' = err
       \/ /\ \E kind \in FetchErrors : Raise(kind, cfg.segment_ids[i])
          /\ raw' = raw
    /\ UNCHANGED <<cfg, i, proof, frags, store, puts, mesh_s3_url, info, skmgr,
                   skeletons, skeleton_source, linkArgs, layers, pass, snapshot>>

\* lines 49-52: reshape, np.unique, reshape, out[sid] = (verts, edges)
fetch_proofread_skeletons_unique ==
    /\ pc = "skel_unique"
    /\ LET u == np_unique(raw)
           sid == cfg.segment_ids[i]
       IN  IF CanReshapePairs(u.inv)
           THEN /\ skeletons' =
                      DictSet(skeletons, sid, <<u.verts, ReshapePairs(u.inv)>>)
                /\ i' = i + 1
                /\ pc' = "skel_fetch"
                /\ err' = err
           ELSE /\ Raise("ValueError", sid)
                /\ UNCHANGED <<skeletons, i>>
    /\ UNCHANGED <<cfg, proof, frags, store, puts, mesh_s3_url, info, skmgr,
                   raw, skeleton_source, linkArgs, layers, pass, snapshot>>

\* line 53: return out
fetch_proofread_skeletons_return ==
    /\ pc = "skel_fetch"
    /\ i > Len(cfg.segment_ids)
    /\ pc' = "skel_upload"
    /\ i' = 1
    /\ raw' = <<>>
    /\ UNCHANGED <<cfg, err, proof, frags, store, puts, mesh_s3_url, info,
                   skmgr, skeletons, skeleton_source, linkArgs, layers, pass,
                   snapshot>>

(***************************************************************************)
(* upload_skeletons                                                        *)
(***************************************************************************)
\* lines 92-99: one upload_skeleton per item of the skeletons dict
upload_skeletons_upload ==
    /\ pc = "skel_upload"
    /\ i <= Len(skeletons)
    /\ LET sid == skeletons[i][1]
           verts == skeletons[i][2][1]
           edges == skeletons[i][2][2]
           skel == [vertices |-> verts, edges |-> edges,
                    radius |-> [n \in 1..Len(verts) |-> 10]]
       IN  \/ /\ skmgr' = [skmgr EXCEPT !.uploaded = DictSet(@, sid, skel)]
              /\ i' = i + 1
              /\ UNCHANGED <<pc, err>>
           \/ /\ Raise("UploadError", sid)
              /\ UNCHANGED <<skmgr, i>>
    /\ UNCHANGED <<cfg, proof, frags, store, puts, mesh_s3_url, info, raw,
                   skeletons, skeleton_source, linkArgs, layers, pass, snapshot>>

\* line 101: after the uploads, return skmgr.skeleton_source
upload_skeletons_return ==
    /\ pc = "skel_upload"
    /\ i > Len(skeletons)
    /\ skeleton_source' = skmgr.cloudpath
    /\ pc' = "link_args"
    /\ UNCHANGED <<cfg, err, i, proof, frags, store, puts, mesh_s3_url, info,
                   skmgr, raw, skeletons, linkArgs, layers, pass, snapshot>>

(***************************************************************************)
(* main, lines 43-54: the call of build_viewer_link, and its body          *)
(***************************************************************************)
main_build_viewer_link_args ==
    /\ pc = "link_args"
    /\ linkArgs' =
         [image_source |-> cfg.image_layer_source,
          seg_source |-> cfg.segmentation_layer_source,
          mesh_source |-> mesh_s3_url,
          skeleton_source |-> skeleton_source,
          mesh_layer_name |-> CfgGet(cfg, "mesh_layer_name", "proofread_meshes"),
          segment_ids |-> cfg.segment_ids,
          skeleton_manager |-> skmgr,
          skeleton_layer_name |-> "proofread_skeletons"]
    /\ pc' = "build_link"
    /\ UNCHANGED <<cfg, err, i, proof, frags, store, puts, mesh_s3_url, info,
                   skmgr, raw, skeletons, skeleton_source, layers, pass,
                   snapshot>>

\* lines 153-179: the layers are added, then the state goes to the viewer
\* service, which may refuse it
build_viewer_link_body ==
    /\ pc = "build_link"
    /\ layers' = build_viewer_link(linkArgs)
    /\ \/ /\ pc' = "done"
          /\ err' = err
       \/ Raise("LinkBuildError", 0)
    /\ UNCHANGED <<cfg, i, proof, frags, store, puts, mesh_s3_url, info, skmgr,
                   raw, skeletons, skeleton_source, linkArgs, pass, snapshot>>

Next ==
    \/ fetch_proofread_meshes_fetch
    \/ fetch_proofread_meshes_encode
    \/ fetch_proofread_meshes_return
    \/ upload_meshes_to_s3_put
    \/ upload_meshes_to_s3_return
    \/ write_info_file
    \/ init_skeleton_manager
    \/ fetch_proofread_skeletons_fetch
    \/ fetch_proofread_skeletons_unique
    \/ fetch_proofread_skeletons_return
    \/ upload_skeletons_upload
    \/ upload_skeletons_return
    \/ main_build_viewer_link_args
    \/ build_viewer_link_body

Spec == Init /\ [][Next]_vars

(***************************************************************************)
(* SpecDedup: the deduplication of fetch_proofread_skeletons on every raw  *)
(* skeleton of the bounds, for a one-id list.                              *)
(***************************************************************************)
InitDedup ==
    \E sid \in SegmentIds, r \in AllRaws :
        StartAt("skel_unique", BaseCfg(<<sid>>), <<>>, NoStore, r, NoArgs)

NextDedup ==
    \/ fetch_proofread_skeletons_unique
    \/ fetch_proofread_skeletons_return

SpecDedup == InitDedup /\ [][NextDedup]_vars

(***************************************************************************)
(* SpecInfo: write_info_file on configurations with none, some or all of   *)
(* chunk_sizes, resolution and size overridden, well-formed or not.        *)
(***************************************************************************)
InitInfo ==
    \E d \in DirCfgs, c, r, s \in OverrideChoices :
        StartAt("write_info",
                BaseCfg(<<>>) @@ d @@ ChunkCfg(c) @@ ResolutionCfg(r) @@ SizeCfg(s),
                <<>>, NoStore, <<>>, NoArgs)

NextInfo == write_info_file

SpecInfo == InitInfo /\ [][NextInfo]_vars

(***************************************************************************)
(* SpecLink: build_viewer_link on every argument list of LinkArgSets: with *)
(* and without a skeleton source, with and without a skeleton manager (its *)
(* default is None).                                                       *)
(***************************************************************************)
SomeManager ==
    [kind |-> "SkeletonManager", segmentation_source |-> "precomputed://seg",
     cloudpath |-> "s3://bkt/exp1/skeletons", uploaded |-> <<>>]

LinkArgSets ==
    [image_source : {"precomputed://em"},
     seg_source : {"precomputed://seg"},
     mesh_source : {"s3://bkt/exp1/mesh"},
     skeleton_source : {None, "s3://bkt/exp1/skeletons"},
     mesh_layer_name : {"proofread_meshes", "my_meshes"},
     segment_ids : IdLists,
     skeleton_manager : {NoManager, SomeManager},
     skeleton_layer_name : {"skeletons", "proofread_skeletons"}]

InitLink ==
    \E a \in LinkArgSets :
        StartAt("build_link", BaseCfg(<<>>), <<>>, NoStore, <<>>, a)

NextLink == build_viewer_link_body

SpecLink == InitLink /\ [][NextLink]_vars

(***************************************************************************)
(* SpecRepublish: upload_meshes_to_s3 and write_info_file run on a         *)
(* fragments dict, then run again on the same dict with the same           *)
(* configuration.  The bucket may hold older objects before the first run. *)
(***************************************************************************)
\* the fragments dicts: distinct segment ids in any order
FragDicts ==
    {d \in UNION {[1..n -> SegmentIds \X {to_precomputed(m) : m \in Meshes}] :
                     n \in 0..MaxSegs} :
        \A a, b \in 1..Len(d) : d[a][1] = d[b][1] => a = b}

PriorStores ==
    {NoStore,
     PutObject(PutObject(NoStore, "exp1/mesh/10:0", <<0>>,
                         "application/octet-stream"),
               "exp1/notes", "kept", "text/plain")}

InitRepublish ==
    \E d \in FragDicts, dc \in DirCfgs, o \in {NoCfg, GoodOverrides},
       st \in PriorStores :
        StartAt("mesh_upload", BaseCfg([n \in 1..Len(d) |-> d[n][1]]) @@ dc @@ o,
                d, st, <<>>, NoArgs)

\* the second run: same fragments, same configuration, the bucket as it is
publish_again ==
    /\ pc = "init_skmgr"
    /\ pass = 1
    /\ pass' = 2
    /\ snapshot' = store
    /\ pc' = "mesh_upload"
    /\ i' = 1
    /\ puts' = <<>>
    /\ mesh_s3_url' = None
    /\ info' = JNull
    /\ UNCHANGED <<cfg, err, proof, frags, store, skmgr, raw, skeletons,
                   skeleton_source, linkArgs, layers>>

NextRepublish ==
    \/ upload_meshes_to_s3_put
    \/ upload_meshes_to_s3_return
    \/ write_info_file
    \/ publish_again

SpecRepublish == InitRepublish /\ [][NextRepublish]_vars

(***************************************************************************)
(* Properties.                                                             *)
(***************************************************************************)
\* the run is over: main returned, or an exception ended it
Ended == pc \in {"done", "raised"}

\* the deduplication of a segment id has just finished; raw is still the
\* stream it was given
JustDeduplicated == pc = "skel_fetch" /\ i > 1

LastVertices == DictGet(skeletons, cfg.segment_ids[i - 1])[1]

LastEdges == DictGet(skeletons, cfg.segment_ids[i - 1])[2]

\* C2: a skeleton deduplicated from a stream of 2E points has exactly E
\* edges, every edge index below the vertex count, and at most 2E vertices.
C2_EdgeIndicesInRange ==
    JustDeduplicated =>
        LET E == Len(raw) \div 2
        IN  /\ Len(raw) = 2 * E
            /\ Len(LastEdges) = E
            /\ \A e \in 1..Len(LastEdges) : \A k \in 1..2 :
                   LastEdges[e][k] \in 0..(Len(LastVertices) - 1)
            /\ Len(LastVertices) <= 2 * E

\* two edges sharing a point: 4 raw points, 3 vertices, 2 edges
C2_Witness ==
    /\ JustDeduplicated
    /\ Len(raw) = 4
    /\ raw[2] = raw[3]
    /\ Len(LastVertices) = 3
    /\ Len(LastEdges) = 2

\* C3: the vertices are the distinct input coordinates, each once; edge e
\* joins the vertices holding input points 2e and 2e+1 (counted from 0); an
\* edge whose endpoints coincide stays, as a self-loop.
C3_FaithfulReindexing ==
    JustDeduplicated =>
        /\ Cardinality(Range(LastVertices)) = Len(LastVertices)
        /\ Range(LastVertices) = Range(raw)
        /\ Len(LastEdges) = Len(raw) \div 2
        /\ \A e \in 1..Len(LastEdges) : \A k \in 1..2 :
               /\ LastEdges[e][k] + 1 \in 1..Len(LastVertices)
               /\ LastVertices[LastEdges[e][k] + 1] = raw[2 * (e - 1) + k]
        /\ \A e \in 1..Len(LastEdges) :
               raw[2 * e - 1] = raw[2 * e] => LastEdges[e][1] = LastEdges[e][2]

\* a degenerate edge next to a proper one
C3_Witness ==
    /\ JustDeduplicated
    /\ Len(raw) = 4
    /\ raw[1] = raw[2]
    /\ raw[3] # raw[4]
    /\ LastEdges[1][1] = LastEdges[1][2]
    /\ LastEdges[2][1] # LastEdges[2][2]

\* the configured mesh directory name
ConfiguredMeshDir ==
    IF "fragment_dir_name" \in DOMAIN cfg THEN cfg.fragment_dir_name ELSE "mesh"

\* {basePath}/{meshDirName}/{S}:0
SchemeMeshKey(sid) ==
    cfg.s3_base_path \o "/" \o ConfiguredMeshDir \o "/" \o ToString(sid) \o ":0"

\* {basePath}/info
SchemeInfoKey == cfg.s3_base_path \o "/info"

\* C4: once upload_meshes_to_s3 and write_info_file have completed, the puts
\* made are one per segment id of the fragment map, at
\* {basePath}/{meshDirName}/{S}:0, and one at {basePath}/info, all at
\* distinct keys and at no other key, and the value returned for the meshes
\* is s3://{bucket}/{basePath}/{meshDirName}.
C4_KeyScheme ==
    pc = "init_skmgr" =>
        /\ DictKeys(frags) = Range(cfg.segment_ids)
        /\ Range(puts) =
             {SchemeMeshKey(sid) : sid \in DictKeys(frags)} \cup {SchemeInfoKey}
        /\ Len(puts) = Cardinality(DictKeys(frags)) + 1
        /\ Cardinality(Range(puts)) = Len(puts)
        /\ DOMAIN store = Range(puts)
        /\ mesh_s3_url = "s3://" \o cfg.bucket \o "/" \o cfg.s3_base_path
                            \o "/" \o ConfiguredMeshDir

\* two segment ids published under a configured directory name
C4_Witness ==
    /\ pc = "init_skmgr"
    /\ Len(frags) = 2
    /\ "fragment_dir_name" \in DOMAIN cfg
    /\ Len(puts) = 3

\* C5: the second run of the mesh upload and the manifest write, on the
\* same fragments and configuration, leaves the bucket exactly as the first
\* run left it: the same keys, each with the same content.
C5_IdempotentPublish ==
    (pass = 2 /\ pc = "init_skmgr") => store = snapshot

\* a second run of two fragments over a bucket that held older objects
C5_Witness ==
    /\ pass = 2
    /\ pc = "init_skmgr"
    /\ Len(frags) = 2
    /\ Len(puts) = 3
    /\ "exp1/notes" \in DOMAIN store

\* scales[0] of the manifest
Scale0 == JGet(info, "scales").v[1]

IsNumTriple(j) ==
    /\ j.t = "list"
    /\ Len(j.v) = 3
    /\ \A n \in 1..3 : j.v[n].t = "num"

\* a non-empty list of 3-number triples
IsTripleList(j) ==
    /\ j.t = "list"
    /\ Len(j.v) >= 1
    /\ \A n \in 1..Len(j.v) : IsNumTriple(j.v[n])

\* C6 as stated: for any configuration the manifest written has one scale,
\* whose chunk_sizes, resolution and size are each a 3-element numeric
\* sequence, and its mesh field is the configured mesh directory name.
C6_ManifestSchemaAsStated ==
    pc = "init_skmgr" =>
        /\ Len(JGet(info, "scales").v) = 1
        /\ IsNumTriple(JGet(Scale0, "chunk_sizes"))
        /\ IsNumTriple(JGet(Scale0, "resolution"))
        /\ IsNumTriple(JGet(Scale0, "size"))
        /\ JGet(info, "mesh") = JStr(ConfiguredMeshDir)

\* C6 amended: the manifest has one scale and its mesh field is the
\* configured mesh directory name; chunk_sizes, resolution and size are each
\* the configured value when the configuration has the key, written as it
\* is, and otherwise the default: [[64,64,64]], a list of one 3-number
\* triple, for chunk_sizes, and the 3-number sequences [8,8,30] and [1,1,1]
\* for resolution and size.  So chunk_sizes is a list of triples, and
\* resolution and size are 3-element numeric sequences, whenever the
\* configuration leaves them out or gives them in that shape.
C6_ManifestSchema ==
    pc = "init_skmgr" =>
        /\ JGet(info, "scales").t = "list"
        /\ Len(JGet(info, "scales").v) = 1
        /\ JGet(info, "mesh") = JStr(ConfiguredMeshDir)
        /\ JGet(Scale0, "chunk_sizes") =
             (IF "chunk_sizes" \in DOMAIN cfg THEN cfg.chunk_sizes
              ELSE JList(<<JList(<<JNum(64), JNum(64), JNum(64)>>)>>))
        /\ JGet(Scale0, "resolution") =
             (IF "resolution" \in DOMAIN cfg THEN cfg.resolution
              ELSE JList(<<JNum(8), JNum(8), JNum(30)>>))
        /\ JGet(Scale0, "size") =
             (IF "size" \in DOMAIN cfg THEN cfg.size
              ELSE JList(<<JNum(1), JNum(1), JNum(1)>>))
        /\ ("chunk_sizes" \in DOMAIN cfg => IsTripleList(cfg.chunk_sizes))
               => IsTripleList(JGet(Scale0, "chunk_sizes"))
        /\ ("resolution" \in DOMAIN cfg => IsNumTriple(cfg.resolution))
               => IsNumTriple(JGet(Scale0, "resolution"))
        /\ ("size" \in DOMAIN cfg => IsNumTriple(cfg.size))
               => IsNumTriple(JGet(Scale0, "size"))

\* a manifest written with resolution overridden, chunk_sizes and size left
\* out, under a configured directory name
C6_Witness ==
    /\ pc = "init_skmgr"
    /\ "resolution" \in DOMAIN cfg
    /\ IsNumTriple(cfg.resolution)
    /\ "chunk_sizes" \notin DOMAIN cfg
    /\ "size" \notin DOMAIN cfg
    /\ "fragment_dir_name" \in DOMAIN cfg
    /\ SchemeInfoKey \in DOMAIN store

LayerNames == [n \in 1..Len(layers) |-> layers[n].name]

FiveLayerNames ==
    <<"EM_image", "flat_seg", linkArgs.mesh_layer_name,
      "proofread_skeletons_source", linkArgs.skeleton_layer_name>>

\* C7 as stated: a link built with a non-null skeleton source has the five
\* layers EM_image, flat_seg, <meshLayerName>, proofread_skeletons_source,
\* <skeletonLayerName>, in this order.
C7_LayerOrderAsStated ==
    (layers # <<>> /\ linkArgs.skeleton_source # None) =>
        LayerNames = FiveLayerNames

\* C7 amended: a link built with a skeleton manager, as main builds it, has
\* these five layers in this order; built without one it has the first four
\* only.  The skeleton source being null or not changes neither.
C7_LayerOrder ==
    layers # <<>> =>
        LayerNames = IF linkArgs.skeleton_manager # NoManager
                     THEN FiveLayerNames
                     ELSE SubSeq(FiveLayerNames, 1, 4)

\* a link built with a skeleton source and a skeleton manager
C7_Witness ==
    /\ layers # <<>>
    /\ linkArgs.skeleton_source # None
    /\ linkArgs.skeleton_manager # NoManager
    /\ linkArgs.mesh_layer_name = "my_meshes"
    /\ Len(layers) = 5

\* the mesh fetch of segment id sid raised kind
MeshFetchRaised(kind, sid) ==
    /\ pc = "raised"
    /\ err = [kind |-> kind, sid |-> sid]
    /\ mesh_s3_url = None
    /\ sid \notin DictKeys(frags)

\* C1: in a run over [A, B] where fetching A raises NotFoundError, the
\* processing goes on past A: at the end of the run B has been fetched and
\* B's mesh fragment is in the object store.
C1_PartialFailureIsolation ==
    \A A, B \in SegmentIds :
        (A # B /\ Ended /\ cfg.segment_ids = <<A, B>>
              /\ MeshFetchRaised("NotFoundError", A))
            => /\ B \in DictKeys(frags)
               /\ SchemeMeshKey(B) \in DOMAIN store

\* the face indices of a fragment: what follows the count and the 3 * count
\* coordinates
FragmentFaceIndices(body) == SubSeq(body, 2 + 3 * body[1], Len(body))

FragmentWellFormed(body) ==
    \A n \in 1..Len(FragmentFaceIndices(body)) :
        FragmentFaceIndices(body)[n] < body[1]

\* C8: a mesh with a face index at or above its vertex count is rejected
\* when it is encoded, so no fragment made from it is written to the object
\* store: every fragment in the store has its face indices below its vertex
\* count.
C8_MalformedMeshRejected ==
    \A k \in DOMAIN store :
        store[k].ContentType = "application/octet-stream"
            => FragmentWellFormed(store[k].Body)

ManifestPuts == {n \in 1..Len(puts) : puts[n] = SchemeInfoKey}

\* C9: the link is built only after every mesh upload and every skeleton
\* upload of the run, with the skeleton source read after the last upload;
\* and every run, one where segment work failed included, has written the
\* manifest exactly once and built the link by the time it ends.
C9_RunOrdering ==
    /\ layers # <<>> =>
           /\ \A sid \in Range(cfg.segment_ids) :
                  /\ SchemeMeshKey(sid) \in Range(puts)
                  /\ sid \in DictKeys(skmgr.uploaded)
           /\ linkArgs.skeleton_source = skmgr.cloudpath
           /\ Cardinality(ManifestPuts) = 1
    /\ Cardinality(ManifestPuts) <= 1
    /\ Ended => (Cardinality(ManifestPuts) = 1 /\ layers # <<>>)

\* the state of a segment id in the mesh pipeline, read off the run: Failed
\* when the exception that ended the mesh work names it, Done once its
\* fragment is put, Uploading while its fragment waits in the fragments dict
\* or is being put, Encoding and Fetching while the fetch loop is at it
SegState(sid) ==
    CASE pc = "raised" /\ mesh_s3_url = None /\ err.sid = sid -> "Failed"
      [] OTHER ->
         IF SchemeMeshKey(sid) \in Range(puts) THEN "Done"
         ELSE IF sid \in DictKeys(frags) THEN "Uploading"
         ELSE IF pc = "mesh_encode" /\ cfg.segment_ids[i] = sid THEN "Encoding"
         ELSE IF pc = "mesh_fetch" /\ i <= Len(cfg.segment_ids)
                    /\ cfg.segment_ids[i] = sid THEN "Fetching"
         ELSE "Pending"

SegStep(a, b) ==
    \/ a = b
    \/ <<a, b>> \in {<<"Pending", "Fetching">>, <<"Fetching", "Encoding">>,
                     <<"Encoding", "Uploading">>, <<"Uploading", "Done">>}
    \/ a \notin {"Done", "Failed"} /\ b = "Failed"

NoRepeats(ids) == \A a, b \in 1..Len(ids) : ids[a] = ids[b] => a = b

\* the steps of every segment id are steps of the state machine
SegStepsInOrder ==
    [][NoRepeats(cfg.segment_ids) =>
          \A sid \in Range(cfg.segment_ids) :
              SegStep(SegState(sid), SegState(sid)')]_vars

\* C10: every segment id of the run (of an id list without repeats) moves
\* only along Pending -> Fetching -> Encoding -> Uploading -> Done, or into
\* Failed from a state that is not terminal, never leaves Done or Failed,
\* and is Done or Failed when the run ends.
C10_SegmentStateMachine ==
    /\ SegStepsInOrder
    /\ [](NoRepeats(cfg.segment_ids) /\ Ended =>
             \A sid \in Range(cfg.segment_ids) :
                 SegState(sid) \in {"Done", "Failed"})

=============================================================================
